---- MODULE Spec2Model ----
(***************************************************************************)
(* A model of src/db.cc: the typed value / schema model, the expression    *)
(* tree (Variable, EqualExpr) and the operator tree (Scan, Filter,         *)
(* Project) with its open / next / close iterator protocol.                *)
(*                                                                         *)
(* Values are records [tag, val]: tag is the active alternative of the     *)
(* std::variant<int64_t, string, bool>, val its payload (text is interned  *)
(* as a number, a bool is 0 or 1).  A Row is a function from column names  *)
(* to Values (std::map<string, Value>).                                    *)
(*                                                                         *)
(* A call through a null pointer is undefined behaviour; it is modelled at *)
(* the call site as a choice between the process dying and the call        *)
(* returning any value of its return type.                                 *)
(***************************************************************************)
EXTENDS Integers, Sequences, FiniteSets, TLC

\* ---------------------------------------------------------------- bounds
MaxNodes == 3      \* operators in a tree (a chain: every operator is unary)
MaxRows  == 2      \* rows an external row source holds
MaxCalls == 3      \* next() calls the driver issues
MaxStack == 2      \* activation records the call stack holds
MaxSteps == 3      \* steps of a running open()/close() that are recorded
MaxPull  == 2      \* iterations of one Filter::next that are followed
MaxCols  == 2      \* columns of a schema
MaxDepth == 1      \* nesting of an EqualExpr given as an operand

NULL == 0          \* nullptr

\* ------------------------------------------------------------ Type, Value
Type == {"Int", "String", "Boolean"}

IntValue(i)     == [tag |-> "Int", val |-> i]
StringValue(s)  == [tag |-> "String", val |-> s]
BooleanValue(b) == [tag |-> "Boolean", val |-> IF b THEN 1 ELSE 0]

Value == {IntValue(1), IntValue(2), StringValue(1),
          BooleanValue(TRUE), BooleanValue(FALSE)}

\* the Type a Value's active alternative corresponds to
TypeOf(v) == v.tag

\* results of a call: a value, a C++ exception, or the death of the process
Val(v)      == [tag |-> "val", val |-> v]
Throw(what) == [tag |-> "throw", what |-> what]
Crash       == [tag |-> "crash"]

\* Value::get_boolean converting the payload instead of checking the variant
get_booleanCoerces(v) == Val(v.val # 0)

\* Value::get_boolean: std::get<bool> throws bad_variant_access
get_boolean(v) ==
    IF v.tag = "Boolean" THEN Val(v.val = 1) ELSE Throw("bad_variant_access")

\* ------------------------------------------------------------ Schema, Row
Column(name, type) == [name |-> name, type |-> type]

\* the schema of the rows an external source supplies
columns == <<Column("id", "Int"), Column("name", "String"),
             Column("ok", "Boolean")>>

MakeSchema(cols) ==
    [columns |-> cols,
     column_name_map |-> [nm \in {cols[i].name : i \in 1..Len(cols)} |->
                            (CHOOSE i \in 1..Len(cols) : cols[i].name = nm) - 1]]

\* Schema::column(size_t): vector::at
\* the same lookup with the index clamped to the last column
Schema_column_indexClamps(schema, index) ==
    IF Len(schema.columns) = 0 \/ index < 0
    THEN Throw("out_of_range")
    ELSE Val(schema.columns[IF index < Len(schema.columns)
                            THEN index + 1 ELSE Len(schema.columns)])

Schema_column_index(schema, index) ==
    IF index >= 0 /\ index < Len(schema.columns)
    THEN Val(schema.columns[index + 1])
    ELSE Throw("out_of_range")

\* Schema::column(string): map::at, then vector::at
\* the same lookup reading the stored index as a 1-based position
Schema_column_nameOneBased(schema, name) ==
    IF name \in DOMAIN schema.column_name_map
    THEN Schema_column_index(schema, schema.column_name_map[name] - 1)
    ELSE Throw("out_of_range")

Schema_column_name(schema, name) ==
    IF name \in DOMAIN schema.column_name_map
    THEN Schema_column_index(schema, schema.column_name_map[name])
    ELSE Throw("out_of_range")

\* struct Row: the rows matching `columns`
Row == {[id |-> IntValue(1), name |-> StringValue(1), ok |-> BooleanValue(b)] :
            b \in BOOLEAN}

EmptyRow == [k \in {} |-> IntValue(1)]

\* the schema a row conforms to: its keys, in a fixed order, with the Type of
\* each key's Value
NameOrder == <<"id", "name", "ok", "n", "zz">>

RECURSIVE ColumnsOfRow(_, _)
ColumnsOfRow(row, i) ==
    IF i > Len(NameOrder) THEN <<>>
    ELSE (IF NameOrder[i] \in DOMAIN row
          THEN <<Column(NameOrder[i], TypeOf(row[NameOrder[i]]))>>
          ELSE <<>>) \o ColumnsOfRow(row, i + 1)

SchemaOfRow(row) == MakeSchema(ColumnsOfRow(row, 1))

\* ------------------------------------------------------------ Expression
VariableExpr(name) == [kind |-> "Variable", name |-> name]
EqualExpr(left, right) ==
    [kind |-> "EqualExpr", left_child |-> left, right_child |-> right]

\* EqualExpr's children are unique_ptr<EqualExpr>: an EqualExpr or nullptr
NullExpr == [kind |-> "nullptr"]
EqualLeaf == EqualExpr(NullExpr, NullExpr)
Expression ==
    {VariableExpr(nm) : nm \in {"id", "ok", "zz"}}
      \cup {EqualLeaf, EqualExpr(EqualLeaf, EqualLeaf), EqualExpr(EqualLeaf, NullExpr)}

\* the lookup with payload[name], which yields a default Value for a missing key
Variable_evalDefault(e, row) ==
    {Val(IF e.name \in DOMAIN row THEN row[e.name] ELSE IntValue(0))}

\* Variable::eval: map::at throws out_of_range
Variable_eval(e, row) ==
    IF e.name \in DOMAIN row THEN {Val(row[e.name])} ELSE {Throw("out_of_range")}

\* the == of std::variant: same alternative and equal payloads
VariantEq(a, b) == a.tag = b.tag /\ a.val = b.val

\* a virtual call through a null Expression pointer
NullEval == {Crash} \cup {Val(v) : v \in Value}

RECURSIVE eval(_, _)
\* EqualExpr::eval: left, then right, then the comparison
EqualExpr_eval(e, row) ==
    LET L == IF e.left_child.kind = "nullptr" THEN NullEval
             ELSE eval(e.left_child, row)
        R == IF e.right_child.kind = "nullptr" THEN NullEval
             ELSE eval(e.right_child, row)
    IN  {l \in L : l.tag # "val"}
          \cup UNION {IF r.tag # "val" THEN {r}
                      ELSE {Val(BooleanValue(VariantEq(l.val, r.val)))} :
                        l \in {x \in L : x.tag = "val"}, r \in R}

\* virtual dispatch of Expression::eval
eval(e, row) ==
    IF e.kind = "Variable" THEN Variable_eval(e, row) ELSE EqualExpr_eval(e, row)

\* Variable::return_type
Variable_return_type(e, schema) ==
    LET c == Schema_column_name(schema, e.name)
    IN  IF c.tag = "val" THEN Val(c.val.type) ELSE c

\* EqualExpr::return_type
EqualExpr_return_type(e, schema) == Val("Boolean")

\* virtual dispatch of Expression::return_type
return_type(e, schema) ==
    IF e.kind = "Variable" THEN Variable_return_type(e, schema)
    ELSE EqualExpr_return_type(e, schema)

\* -------------------------------------------------------------- Operator
\* An operator tree is a chain tree[1], ..., tree[n]: tree[1] is the root and
\* the operator at position i was constructed with the operator at i + 1 as
\* its child argument (nullptr for the last one).  A node's `child` field is
\* the member the constructor leaves behind.

\* Scan::Scan: child(move(_child))
Scan(_child) == [kind |-> "Scan", child |-> _child]

\* Filter::Filter: pred(move(_pred)); the child argument is not stored
Filter(_pred, _child) == [kind |-> "Filter", pred |-> _pred, child |-> NULL]

\* Project::Project: projects(move(_projects)), child(move(_child))
Project(_projects, _child) ==
    [kind |-> "Project", projects |-> _projects, child |-> _child]

\* an Operator implemented outside this file (the external row source): it
\* implements the pure virtual next() and inherits open(), close(), children()
Source(_rows) == [kind |-> "Source", rows |-> _rows]

\* Operator::children and its overrides in Filter and Project
children(node) ==
    IF node.kind \in {"Filter", "Project"} THEN <<node.child>> ELSE <<>>

\* results of next(): optional<Row>, an exception, or the death of the process
RowRes(row) == [tag |-> "row", row |-> row]
Exhausted   == [tag |-> "exhausted"]

Outcome(res, cur, log) == [res |-> res, cur |-> cur, log |-> log]
CallRec(caller, callee, res) == [caller |-> caller, callee |-> callee, res |-> res]

\* Scan::next: return {}
Scan_next(t, n, cur) == {Outcome(Exhausted, cur, <<>>)}

\* next() of the external row source: its rows in order, then exhausted
Source_next(t, n, cur) ==
    IF cur[n] < Len(t[n].rows)
    THEN {Outcome(RowRes(t[n].rows[cur[n] + 1]), [cur EXCEPT ![n] = @ + 1], <<>>)}
    ELSE {Outcome(Exhausted, cur, <<>>)}

\* a virtual call of next() through a null Operator pointer
NullRows == {EmptyRow} \cup {r \in Row : r.ok = BooleanValue(TRUE)}
NullNext == {Crash, Exhausted} \cup {RowRes(r) : r \in NullRows}

RECURSIVE next(_, _, _)
\* child->next() made by operator n; the call and its result are logged
ChildNext(t, n, cur) ==
    LET c == t[n].child
    IN  IF c = NULL
        THEN {Outcome(r, cur, <<CallRec(n, NULL, r)>>) : r \in NullNext}
        ELSE {Outcome(o.res, o.cur, <<CallRec(n, c, o.res)>>  \o o.log) :
                o \in next(t, c, cur)}

\* one evaluation of Filter's predicate: pred->eval(row).get_boolean()
PredResult(pred, row) ==
    {IF p.tag = "val" THEN get_boolean(p.val) ELSE p : p \in eval(pred, row)}

RECURSIVE FilterLoop(_, _, _, _, _)
\* the for (;;) of Filter::next
FilterLoop(t, n, cur, log, fuel) ==
    IF fuel = 0 THEN {}
    ELSE UNION {
        IF o.res.tag # "row" THEN {Outcome(o.res, o.cur, log \o o.log)}
        ELSE UNION {
            IF p.tag # "val" THEN {Outcome(p, o.cur, log \o o.log)}
            ELSE IF p.val THEN {Outcome(RowRes(o.res.row), o.cur, log \o o.log)}
            ELSE FilterLoop(t, n, o.cur, log \o o.log, fuel - 1) :
              p \in PredResult(t[n].pred, o.res.row)} :
          o \in ChildNext(t, n, cur)}

\* Filter::next
Filter_next(t, n, cur) == FilterLoop(t, n, cur, <<>>, MaxPull)

RECURSIVE ProjectLoopFirstWins(_, _, _, _)
\* the same loop with payload.insert({name, result}), which keeps the value a
\* name already has
ProjectLoopFirstWins(projects, i, row, new_row) ==
    IF i > Len(projects) THEN {RowRes(new_row)}
    ELSE UNION {
        IF r.tag # "val" THEN {r}
        ELSE ProjectLoopFirstWins(projects, i + 1, row,
                         [k \in DOMAIN new_row \cup {projects[i][1]} |->
                            IF k \in DOMAIN new_row THEN new_row[k] ELSE r.val]) :
          r \in eval(projects[i][2], row)}

RECURSIVE ProjectLoop(_, _, _, _)
\* the for over projects of Project::next: new_row.payload[name] = result
ProjectLoop(projects, i, row, new_row) ==
    IF i > Len(projects) THEN {RowRes(new_row)}
    ELSE UNION {
        IF r.tag # "val" THEN {r}
        ELSE ProjectLoop(projects, i + 1, row,
                         [k \in DOMAIN new_row \cup {projects[i][1]} |->
                            IF k = projects[i][1] THEN r.val ELSE new_row[k]]) :
          r \in eval(projects[i][2], row)}

\* Project::next with `return row` for `return new_row`
Project_nextReturnsPulled(t, n, cur) ==
    UNION {
        IF o.res.tag # "row" THEN {o}
        ELSE {Outcome(IF r.tag = "row" THEN o.res ELSE r, o.cur, o.log) :
                r \in ProjectLoop(t[n].projects, 1, o.res.row, EmptyRow)} :
          o \in ChildNext(t, n, cur)}

\* Project::next pulling a second row from the child when the first one is
\* there, and projecting the second
Project_nextPullsTwice(t, n, cur) ==
    UNION {
        IF o.res.tag # "row" THEN {o}
        ELSE UNION {
            IF o2.res.tag # "row"
            THEN {Outcome(o2.res, o2.cur, o.log \o o2.log)}
            ELSE {Outcome(r, o2.cur, o.log \o o2.log) :
                    r \in ProjectLoop(t[n].projects, 1, o2.res.row, EmptyRow)} :
              o2 \in ChildNext(t, n, o.cur)} :
          o \in ChildNext(t, n, cur)}

\* Project::next
Project_next(t, n, cur) ==
    UNION {
        IF o.res.tag # "row" THEN {o}
        ELSE {Outcome(r, o.cur, o.log) :
                r \in ProjectLoop(t[n].projects, 1, o.res.row, EmptyRow)} :
          o \in ChildNext(t, n, cur)}

\* virtual dispatch of Operator::next
next(t, n, cur) ==
    CASE t[n].kind = "Scan"    -> Scan_next(t, n, cur)
      [] t[n].kind = "Filter"  -> Filter_next(t, n, cur)
      [] t[n].kind = "Project" -> Project_next(t, n, cur)
      [] OTHER                 -> Source_next(t, n, cur)

\* ------------------------------------------------------- the state machine
VARIABLES
    tree,     \* the operator tree the driver holds (fixed after construction)
    build,    \* how the build compiles the trailing self call of open()/close()
              \* ("none" until the first such call is reached)
    cursor,   \* position of each external row source
    status,   \* "idle": the driver may call; "running"; "crashed"
    call,     \* the last operation the driver called on the root
    ret,      \* what the last next() of the driver returned
    log,      \* the child->next() calls made during the last next()
    out,      \* what each next() of the driver returned since the last
              \* open() or close(), in order
    pulls,    \* how many next() calls the driver has made
    stack,    \* activation records of a running open() or close()
    trace,    \* the open()/close() activations entered so far, in order
    argSchema, \* the Schema that lookups and return_type are called with
    argRow,   \* the Row that expressions are evaluated against
    last      \* the last call on a schema or an expression, with its result

opVars == <<tree, build, cursor, status, call, ret, log, out, pulls, stack, trace>>
exprVars == <<argSchema, argRow, last>>
vars == <<opVars, exprVars>>

Preds == {VariableExpr("ok"), VariableExpr("id"), VariableExpr("zz")}

ProjectLists ==
    { << <<"n", VariableExpr("ok")>>, <<"id", VariableExpr("id")>> >>,
      << <<"n", VariableExpr("id")>>, <<"n", VariableExpr("ok")>> >>,
      << <<"n", VariableExpr("zz")>> >>,
      << <<"n", VariableExpr("zz")>>, <<"ok", EqualLeaf>> >>,
      << <<"ok", EqualLeaf>> >> }

RowSeqs == UNION {[1..k -> Row] : k \in 0..MaxRows}

\* the operators that can stand at position i of a chain of n operators
NodesAt(i, n) ==
    IF i = n
    THEN {Scan(NULL)} \cup {Source(rows) : rows \in RowSeqs}
    ELSE {Scan(i + 1)} \cup {Filter(pred, i + 1) : pred \in Preds}
           \cup {Project(projects, i + 1) : projects \in ProjectLists}

RECURSIVE Chains(_, _)
Chains(i, n) ==
    IF i > n THEN {<<>>}
    ELSE {<<node>> \o rest : node \in NodesAt(i, n), rest \in Chains(i + 1, n)}

Trees == UNION {Chains(1, n) : n \in 1..MaxNodes}

Frame(fn, node, i) == [fn |-> fn, node |-> node, i |-> i]
Event(fn, node, by) == [fn |-> fn, node |-> node, by |-> by]
DRIVER == 0 - 1

NoRet == [tag |-> "none"]
NoRes == [fn |-> "none"]

Init ==
    /\ tree \in Trees
    /\ build = "none"
    /\ cursor = [n \in 1..Len(tree) |-> 0]
    /\ status = "idle"
    /\ call = "none"
    /\ ret = NoRet
    /\ log = <<>>
    /\ out = <<>>
    /\ pulls = 0
    /\ stack = <<>>
    /\ trace = <<>>
    /\ argSchema = MakeSchema(columns)
    /\ argRow = EmptyRow
    /\ last = NoRes

\* the driver calls next() on the root
DriverNext ==
    /\ status = "idle"
    /\ pulls < MaxCalls
    /\ pulls' = pulls + 1
    /\ \E o \in next(tree, 1, cursor) :
         /\ cursor' = o.cur
         /\ log' = o.log
         /\ ret' = o.res
         /\ out' = Append(out, o.res)
         /\ status' = IF o.res.tag = "crash" THEN "crashed" ELSE "idle"
    /\ call' = "next"
    /\ UNCHANGED <<tree, build, stack, trace, exprVars>>

\* the driver calls open() or close() on the root: Operator::open / ::close
\* is entered
DriverCall(fn) ==
    /\ status = "idle"
    /\ status' = "running"
    /\ call' = fn
    /\ stack' = <<Frame(fn, 1, 1)>>
    /\ trace' = Append(trace, Event(fn, 1, DRIVER))
    /\ build' \in {"call", "tailcall"}
    /\ ret' = NoRet
    /\ log' = <<>>
    /\ out' = <<>>
    /\ UNCHANGED <<tree, cursor, pulls, exprVars>>

DriverOpen == DriverCall("open")

DriverClose == DriverCall("close")

top == stack[Len(stack)]
kids == children(tree[top.node])

Running == status = "running" /\ Len(trace) < MaxSteps

\* a new activation record; the stack overflows when there is no room
Push(frames, f) ==
    IF Len(frames) >= MaxStack
    THEN /\ status' = "crashed"
         /\ stack' = stack
    ELSE /\ status' = status
         /\ stack' = Append(frames, f)

\* for (auto child : children()) child->open();   (or child->close())
CallChild ==
    /\ Running
    /\ top.i <= Len(kids)
    /\ kids[top.i] # NULL
    /\ Push([stack EXCEPT ![Len(stack)].i = @ + 1], Frame(top.fn, kids[top.i], 1))
    /\ trace' = Append(trace, Event(top.fn, kids[top.i], top.node))
    /\ UNCHANGED <<tree, build, cursor, call, ret, log, out, pulls, exprVars>>

\* the same call when the child pointer is null: the process dies or the call
\* comes back
CallNullChild ==
    /\ Running
    /\ top.i <= Len(kids)
    /\ kids[top.i] = NULL
    /\ \E dies \in BOOLEAN :
         IF dies
         THEN status' = "crashed" /\ stack' = stack
         ELSE status' = status /\ stack' = [stack EXCEPT ![Len(stack)].i = @ + 1]
    /\ trace' = Append(trace, Event(top.fn, NULL, top.node))
    /\ UNCHANGED <<tree, build, cursor, call, ret, log, out, pulls, exprVars>>

\* the statement after the loop: open();  (or close();) on this same node.
\* A build that compiles it as a call grows the stack; one that compiles it as
\* a jump reuses the activation record.  Neither ever returns from it.
CallSelf ==
    /\ Running
    /\ top.i > Len(kids)
    /\ IF build = "call"
       THEN Push(stack, Frame(top.fn, top.node, 1))
       ELSE /\ status' = status
            /\ stack' = [stack EXCEPT ![Len(stack)] = Frame(top.fn, top.node, 1)]
    /\ trace' = Append(trace, Event(top.fn, top.node, top.node))
    /\ UNCHANGED <<tree, build, cursor, call, ret, log, out, pulls, exprVars>>

Next ==
    \/ DriverNext
    \/ DriverOpen
    \/ DriverClose
    \/ CallChild
    \/ CallNullChild
    \/ CallSelf

Spec == Init /\ [][Next]_vars

\* --------------------------------- calls on a schema and on an expression
\* Schemas: up to MaxCols columns with distinct names, and the name index
ColumnSet == {Column(nm, ty) : nm \in {"id", "name", "ok"}, ty \in Type}

Schemas ==
    {MakeSchema(cols) :
        cols \in {c \in UNION {[1..k -> ColumnSet] : k \in 0..MaxCols} :
                    \A i, j \in 1..Len(c) : i # j => c[i].name # c[j].name}}

QueryNames == {"id", "name", "ok", "zz"}

\* the expressions an EqualExpr can be given as a child, by nesting depth:
\* an EqualExpr whose children are EqualExprs down to the null pointers
RECURSIVE EqualOfDepth(_)
EqualOfDepth(d) ==
    IF d <= 1 THEN EqualLeaf
    ELSE EqualExpr(EqualOfDepth(d - 1), EqualOfDepth(d - 1))

EqualOperands == 1..MaxDepth

InitExpr ==
    /\ tree = <<Scan(NULL)>>
    /\ build = "none"
    /\ cursor = <<0>>
    /\ status = "idle"
    /\ call = "none"
    /\ ret = NoRet
    /\ log = <<>>
    /\ out = <<>>
    /\ pulls = 0
    /\ stack = <<>>
    /\ trace = <<>>
    /\ argSchema \in Schemas
    /\ argRow \in Row \cup {EmptyRow}
    /\ last = NoRes

\* argSchema.column(index)
CallColumnIndex ==
    /\ \E index \in 0..(MaxCols + 1) :
         last' = [fn |-> "column_index", index |-> index,
                 out |-> Schema_column_index(argSchema, index)]
    /\ UNCHANGED <<opVars, argSchema, argRow>>

\* argSchema.column(name)
CallColumnName ==
    /\ \E name \in QueryNames :
         last' = [fn |-> "column_name", name |-> name,
                 out |-> Schema_column_name(argSchema, name)]
    /\ UNCHANGED <<opVars, argSchema, argRow>>

\* Variable(name).eval(argRow)
CallVariableEval ==
    /\ \E name \in QueryNames :
         \E o \in Variable_eval(VariableExpr(name), argRow) :
             last' = [fn |-> "Variable_eval", name |-> name, out |-> o]
    /\ UNCHANGED <<opVars, argSchema, argRow>>

\* Variable(name).return_type(argSchema)
CallVariableReturnType ==
    /\ \E name \in QueryNames :
         last' = [fn |-> "Variable_return_type", name |-> name,
                 out |-> Variable_return_type(VariableExpr(name), argSchema)]
    /\ UNCHANGED <<opVars, argSchema, argRow>>

\* EqualExpr(left, right).eval(argRow)
CallEqualEval ==
    /\ \E left \in EqualOperands, right \in EqualOperands :
         \E o \in EqualExpr_eval(EqualExpr(EqualOfDepth(left),
                                           EqualOfDepth(right)), argRow) :
             last' = [fn |-> "EqualExpr_eval", left |-> left, right |-> right,
                     out |-> o]
    /\ UNCHANGED <<opVars, argSchema, argRow>>

\* EqualExpr(left, right).return_type(argSchema)
CallEqualReturnType ==
    /\ \E left \in EqualOperands, right \in EqualOperands :
         last' = [fn |-> "EqualExpr_return_type", left |-> left, right |-> right,
                 out |-> EqualExpr_return_type(
                             EqualExpr(EqualOfDepth(left), EqualOfDepth(right)),
                             argSchema)]
    /\ UNCHANGED <<opVars, argSchema, argRow>>

NextExpr ==
    \/ CallColumnIndex
    \/ CallColumnName
    \/ CallVariableEval
    \/ CallVariableReturnType
    \/ CallEqualEval
    \/ CallEqualReturnType

SpecExpr == InitExpr /\ [][NextExpr]_vars

\* ------------------------------------------------------------ properties
Nodes == 1..Len(tree)

\* indices of the trace at which fn was entered on node n
Entered(fn, n) == {i \in 1..Len(trace) : trace[i].fn = fn /\ trace[i].node = n}

\* indices at which node n reached its own step of fn (the statement after
\* the loop over its children)
OwnStep(fn, n) == {i \in Entered(fn, n) : trace[i].by = n}

\* node n was called during the last next() of the driver
Invoked(n) ==
    call = "next" /\ (n = 1 \/ \E i \in 1..Len(log) : log[i].callee = n)

\* what that call on node n came back with
ResultOf(n) ==
    IF n = 1 THEN ret ELSE log[CHOOSE i \in 1..Len(log) : log[i].callee = n].res

\* the child->next() calls node n made during the last next() of the driver
ChildCalls(n) == {i \in 1..Len(log) : log[i].caller = n}

\* every child pointer the tree's open()/close()/next() go through is set
NoNullChild ==
    \A n \in Nodes :
        \A k \in 1..Len(children(tree[n])) : children(tree[n])[k] # NULL

\* C1: a next() called on the root while it is Closed (no open() was ever
\* called on it) fails with PreconditionViolation: it returns neither a row
\* nor exhausted.
C1_NextWhileClosedFails ==
    (call = "next" /\ Entered("open", 1) = {})
        => ret = Throw("PreconditionViolation")

\* C2: open() on the root of a tree (here: one whose child pointers are all
\* set), with no next() call made, terminates without failure, so that
\* close() can follow and release every node.
C2_OpenCloseWithoutNext ==
    (call = "open" /\ pulls = 0 /\ NoNullChild) => status # "crashed"

Passing(pred, rows) ==
    SelectSeq(rows, LAMBDA r : eval(pred, r) = {Val(BooleanValue(TRUE))})

GivenRows(n) == IF tree[n].kind = "Source" THEN tree[n].rows ELSE <<>>

\* C4: a Filter with a Boolean predicate over a child that is a row source
\* (here: one holding a row that satisfies the predicate), driven by next()
\* until exhausted, returns exactly the child's rows that satisfy the
\* predicate, in order, and then exhausted.
C4_FilterCorrect ==
    (/\ Len(tree) = 2
     /\ tree[1].kind = "Filter"
     /\ tree[1].pred = VariableExpr("ok")
     /\ Passing(tree[1].pred, GivenRows(2)) # <<>>)
        => LET want == Passing(tree[1].pred, GivenRows(2))
           IN  \A i \in 1..Len(out) :
                   i <= Len(want) + 1 =>
                       out[i] = IF i <= Len(want) THEN RowRes(want[i]) ELSE Exhausted

\* the last pair of projects that declares the output name nm
LastDecl(projects, nm) ==
    CHOOSE k \in 1..Len(projects) :
        /\ projects[k][1] = nm
        /\ \A m \in (k + 1)..Len(projects) : projects[m][1] # nm

EvalFailures(projects, row) ==
    UNION {{r \in eval(projects[k][2], row) : r.tag # "val"} :
             k \in 1..Len(projects)}

C7_OpenChildrenThenSelfOnce ==
    \A n \in Nodes :
        /\ Cardinality(OwnStep("open", n)) <= 1
        /\ \A i \in OwnStep("open", n) :
             \A k \in 1..Len(children(tree[n])) :
                 \E j \in 1..(i - 1) :
                     trace[j] = Event("open", children(tree[n])[k], n)

\* C8: close() performs a node's own step before it closes any child: when
\* close() is entered on a child, called by its parent, the parent's own step
\* of close() is already in the trace.
C8_CloseSelfBeforeChildren ==
    \A i \in 1..Len(trace) :
        (/\ trace[i].fn = "close"
         /\ trace[i].node # NULL
         /\ trace[i].by \notin {DRIVER, trace[i].node})
            => \E j \in 1..(i - 1) :
                   trace[j] = Event("close", trace[i].by, trace[i].by)

\* C9: an open() on a node on which open() was already entered, with no
\* close() in between, is rejected: the body of open() is not entered again.
C9_SecondOpenRejected ==
    \A n \in Nodes :
        \A i, j \in Entered("open", n) :
            i < j => \E k \in Entered("close", n) : i < k /\ k < j

\* C10: a close() called on the root of a tree (here: one whose child
\* pointers are all set), whatever next() calls went before and whatever they
\* returned, terminates without failure.
C10_CloseSucceeds ==
    (call = "close" /\ NoNullChild) => status # "crashed"

\* the predicate evaluates to a Value that is not a Boolean on this row
NonBoolean(pred, row) ==
    \E p \in eval(pred, row) : p.tag = "val" /\ p.val.tag # "Boolean"

\* C11: when the predicate of a Filter evaluates to a non-Boolean Value for
\* a row the call pulled, that Filter::next aborts with bad_variant_access
\* (the TypeMismatch) right at that pull; and every row a Filter returns has
\* a predicate value of Boolean true, so the offending row is never returned.
C11_NonBooleanAborts ==
    \A n \in Nodes :
        (tree[n].kind = "Filter" /\ Invoked(n))
            => /\ \A i \in ChildCalls(n) :
                    (/\ log[i].res.tag = "row"
                     /\ NonBoolean(tree[n].pred, log[i].res.row))
                        => /\ ResultOf(n) = Throw("bad_variant_access")
                           /\ \A j \in ChildCalls(n) : j <= i
               /\ ResultOf(n).tag = "row" =>
                    eval(tree[n].pred, ResultOf(n).row)
                        = {Val(BooleanValue(TRUE))}

\* a Filter whose predicate is the Int column pulled a row and aborted
C11_Witness ==
    /\ call = "next"
    /\ tree[1].kind = "Filter"
    /\ tree[1].pred = VariableExpr("id")
    /\ Len(log) = 1 /\ log[1].res.tag = "row"
    /\ "id" \in DOMAIN log[1].res.row
    /\ ret = Throw("bad_variant_access")

\* C12: a Scan over an external source returns, call after call, the rows of
\* that source in source order, and exhausted exactly when the source has no
\* more rows.
C12_ScanYieldsSourceRows ==
    (Len(tree) = 2 /\ tree[1].kind = "Scan" /\ tree[2].kind = "Source")
        => \A i \in 1..Len(out) :
               out[i] = IF i <= Len(tree[2].rows)
                        THEN RowRes(tree[2].rows[i]) ELSE Exhausted

\* C18: every operator that has a child in children() retains the child it
\* was constructed with: children() of the Filter or Project at position n
\* is exactly the operator at position n + 1.
C18_ChildRetained ==
    \A n \in Nodes :
        tree[n].kind \in {"Filter", "Project"}
            => children(tree[n]) = <<n + 1>>

\* C19: over a run that follows the protocol (the driver starts with open()
\* on the root), each node is opened at most once, is closed at most once, and
\* is not closed without having been opened.
C19_OpenCloseBalance ==
    (Len(trace) > 0 /\ trace[1] = Event("open", 1, DRIVER) /\ pulls = 0)
        => \A n \in Nodes :
               /\ Cardinality(Entered("open", n)) <= 1
               /\ Cardinality(Entered("close", n)) <= 1
               /\ \A k \in Entered("close", n) :
                      \E i \in Entered("open", n) : i < k

HasColumn(schema, nm) == \E i \in 1..Len(schema.columns) : schema.columns[i].name = nm
PositionOf(schema, nm) == CHOOSE i \in 1..Len(schema.columns) : schema.columns[i].name = nm
ArgsUnchanged == argRow' = argRow /\ argSchema' = argSchema

C14_EqualReturnsBoolean ==
    /\ last.fn = "EqualExpr_eval"
         => (last.out.tag = "val" /\ last.out.val.tag = "Boolean")
    /\ last.fn = "EqualExpr_return_type" => last.out = Val("Boolean")

C15_Lookup ==
    /\ last.fn = "Variable_eval"
         => last.out = IF last.name \in DOMAIN argRow
                       THEN Val(argRow[last.name])
                       ELSE Throw("out_of_range")
    /\ last.fn = "Variable_return_type"
         => last.out = IF HasColumn(argSchema, last.name)
                       THEN Val(argSchema.columns[PositionOf(argSchema, last.name)].type)
                       ELSE Throw("out_of_range")

\* C15: Variable(name).eval(row) is the value the row maps name to and fails
\* with the not-found error when the row has no such key;
\* Variable(name).return_type(schema) is the type of the column of that name
\* and fails the same way when the schema has no such column; neither call
\* changes the row or the schema
C15_VariableLookup == []C15_Lookup /\ [][ArgsUnchanged]_vars

C15_Witness ==
    /\ last.fn = "Variable_eval"
    /\ last.out = Throw("out_of_range")
    /\ argRow # EmptyRow

\* C16: for a column at position i with name n, column(n) and column(i) are
\* the same column, and its name is n
C16_NameAndPositionAgree ==
    (last.fn = "column_name" /\ HasColumn(argSchema, last.name))
        => /\ last.out.tag = "val"
           /\ last.out.val.name = last.name
           /\ last.out = Schema_column_index(argSchema,
                                             PositionOf(argSchema, last.name) - 1)
           /\ last.out.val = argSchema.columns[PositionOf(argSchema, last.name)]

C16_Witness ==
    /\ last.fn = "column_name"
    /\ Len(argSchema.columns) = 2
    /\ last.name = argSchema.columns[2].name
    /\ last.out = Val(argSchema.columns[2])

C17_Failures ==
    /\ (last.fn = "column_index" /\ last.index >= Len(argSchema.columns))
         => last.out = Throw("out_of_range")
    /\ (last.fn = "column_name" /\ ~HasColumn(argSchema, last.name))
         => last.out = Throw("out_of_range")

\* C17: column(index) with an index outside 0..size-1 fails with the
\* out-of-range error, column(name) with a name no column has fails with the
\* not-found error, and neither changes the schema
C17_LookupFailures == []C17_Failures /\ [][ArgsUnchanged]_vars

C17_Witness ==
    /\ last.fn = "column_index"
    /\ Len(argSchema.columns) = 2
    /\ last.index = 2
    /\ last.out = Throw("out_of_range")

====
